---------------------------- MODULE Spec2Model ----------------------------
(***************************************************************************)
(* A model of the KMZ feature-extraction pipeline of membrane-field-core:  *)
(* scripts/convert_kmz_to_lots.py and scripts/build_SIG_json.py.           *)
(*                                                                         *)
(* Text (coordinate text, names, layer names, ids) is a sequence of        *)
(* one-character strings, so that splitting, upper-casing, truncation and  *)
(* formatting are computed as the scripts compute them.  A float is kept   *)
(* as an integer number of hundredths (26.07 is 2607); the texts of the    *)
(* model carry at most two decimals.                                       *)
(***************************************************************************)
EXTENDS Integers, Sequences, FiniteSets, TLC

VARIABLES
    coord_string,   \* parse_coordinates: the argument
    coords,         \* parse_coordinates: what the call did (returned or raised)
    placemark,      \* a Placemark element: its geometry elements in document order
    geometries,     \* the geometry extractor that ran on it and what it did
    features,       \* the assembler's argument (raw_lots / features)
    document,       \* the assembler that ran and the document it returned
    invocation,     \* how many times an assembler has been called in this process
    script,         \* the script that runs: "convert" or "build_sig"
    args,           \* its command line: legacy, layers (--layers), list_layers
    kmz_file,       \* the input archive (convert) / FIELD_misc_export.kmz (build_sig)
    mercado_file,   \* MERCADO_TRANSPORTE.kmz (build_sig)
    pc,             \* main(): the statement the run has reached
    run,            \* the number of the run on these inputs
    date_today,     \* the clock's date
    kml_text,            \* main(): kml
    stats,          \* main(): stats
    outfile,        \* the file at the output path
    outfile_before, \* the file at the output path when the run started
    written,        \* what each completed write put at the output path
    error,          \* the exception that ended the run ("none": none)
    logfile,        \* log_server: the file LOGFILE
    logfile_before, \* the file LOGFILE before the last request
    request,        \* the last POST request the server handled
    response,       \* the status it answered with ("none": connection dropped)
    posted,         \* the text messages posted to /log since the last /clear
    clock,          \* the server's clock
    served          \* the number of requests handled

coordVars == <<coord_string, coords>>
geomVars == <<placemark, geometries>>
asmVars == <<features, document, invocation>>
inputVars == <<script, args, kmz_file, mercado_file>>
runVars == <<script, args, kmz_file, mercado_file, pc, run, date_today, kml_text, stats,
             outfile, outfile_before, written, error>>
logVars == <<logfile, logfile_before, request, response, posted, clock, served>>
vars == <<coord_string, coords, placemark, geometries, features, document, invocation,
          script, args, kmz_file, mercado_file, pc, run, date_today, kml_text, stats,
          outfile, outfile_before, written, error,
          logfile, logfile_before, request, response, posted, clock, served>>

(***************************************************************************)
(* Text helpers: Python's str methods on sequences of characters.          *)
(***************************************************************************)
Digits == {"0", "1", "2", "3", "4", "5", "6", "7", "8", "9"}

Whitespace == {" ", "\n", "\t"}

DigitVal(c) ==
    CASE c = "0" -> 0 [] c = "1" -> 1 [] c = "2" -> 2 [] c = "3" -> 3
      [] c = "4" -> 4 [] c = "5" -> 5 [] c = "6" -> 6 [] c = "7" -> 7
      [] c = "8" -> 8 [] c = "9" -> 9

RECURSIVE DigitsToNat(_)
DigitsToNat(ds) ==
    IF ds = <<>> THEN 0
    ELSE 10 * DigitsToNat(SubSeq(ds, 1, Len(ds) - 1)) + DigitVal(ds[Len(ds)])

\* str.split(sep) for a one-character sep: every separator cuts, empty
\* fields are kept, and the result has at least one field.
RECURSIVE Split(_, _)
Split(s, sep) ==
    IF \A i \in 1..Len(s) : s[i] # sep THEN <<s>>
    ELSE LET i == CHOOSE k \in 1..Len(s) :
                      s[k] = sep /\ \A j \in 1..(k - 1) : s[j] # sep
         IN  <<SubSeq(s, 1, i - 1)>> \o Split(SubSeq(s, i + 1, Len(s)), sep)

\* str.strip().split(): cut on runs of whitespace, no empty token.
RECURSIVE SplitWhitespace(_)
SplitWhitespace(s) ==
    IF s = <<>> THEN <<>>
    ELSE IF Head(s) \in Whitespace THEN SplitWhitespace(Tail(s))
    ELSE LET n == CHOOSE k \in 1..Len(s) :
                      /\ \A j \in 1..k : s[j] \notin Whitespace
                      /\ (k = Len(s) \/ s[k + 1] \in Whitespace)
         IN  <<SubSeq(s, 1, n)>> \o SplitWhitespace(SubSeq(s, n + 1, Len(s)))

\* float(field): an optional sign, digits with at most one decimal point and
\* at least one digit; anything else raises ValueError.  The value is in
\* hundredths.
Float(field) ==
    LET signed == field # <<>> /\ Head(field) \in {"-", "+"}
        body   == IF signed THEN Tail(field) ELSE field
        dots   == {i \in 1..Len(body) : body[i] = "."}
        dot    == IF dots = {} THEN Len(body) + 1 ELSE CHOOSE i \in dots : TRUE
        whole  == SubSeq(body, 1, dot - 1)
        frac   == SubSeq(body, dot + 1, Len(body))
        ok     == /\ \A i \in 1..Len(body) : body[i] \in Digits \cup {"."}
                  /\ Cardinality(dots) <= 1
                  /\ Len(whole) + Len(frac) >= 1
                  /\ Len(frac) <= 2
        mag    == 100 * DigitsToNat(whole)
                  + (IF Len(frac) = 0 THEN 0
                     ELSE IF Len(frac) = 1 THEN 10 * DigitsToNat(frac)
                     ELSE DigitsToNat(frac))
    IN  IF ~ok THEN [ok |-> FALSE, v |-> 0]
        ELSE [ok |-> TRUE, v |-> IF signed /\ Head(field) = "-" THEN 0 - mag ELSE mag]

\* What a call did: it returned value, or it raised.
Returned(value) == [raised |-> "none", value |-> value]

Raised(exc) == [raised |-> exc, value |-> <<>>]

NotCalled == [raised |-> "notcalled", value |-> <<>>]

(***************************************************************************)
(* parse_coordinates (the two scripts carry the same function).            *)
(***************************************************************************)
RECURSIVE parse_coordinates_loop(_, _)
parse_coordinates_loop(points, acc) ==
    IF points = <<>> THEN Returned(acc)
    ELSE LET parts == Split(Head(points), ",")
         IN  IF Len(parts) >= 2
             THEN LET lon == Float(parts[1])
                      lat == Float(parts[2])
                  IN  IF ~lon.ok \/ ~lat.ok THEN Raised("ValueError")
                      ELSE parse_coordinates_loop(Tail(points),
                                                  Append(acc, <<lat.v, lon.v>>))
             ELSE parse_coordinates_loop(Tail(points), acc)

RECURSIVE parse_coordinates_unswapped_loop(_, _)
parse_coordinates_unswapped_loop(points, acc) ==
    IF points = <<>> THEN Returned(acc)
    ELSE LET parts == Split(Head(points), ",")
         IN  IF Len(parts) >= 2
             THEN LET lon == Float(parts[1])
                      lat == Float(parts[2])
                  IN  IF ~lon.ok \/ ~lat.ok THEN Raised("ValueError")
                      ELSE parse_coordinates_unswapped_loop(Tail(points),
                                                  Append(acc, <<lon.v, lat.v>>))
             ELSE parse_coordinates_unswapped_loop(Tail(points), acc)

\* The function with the pair left in the text's order (lon, lat).
parse_coordinates_unswapped(s) ==
    parse_coordinates_unswapped_loop(SplitWhitespace(s), <<>>)

parse_coordinates(s) == parse_coordinates_loop(SplitWhitespace(s), <<>>)

sig_parse_coordinates(s) == parse_coordinates_loop(SplitWhitespace(s), <<>>)

(***************************************************************************)
(* Coordinate texts of the model.                                          *)
(***************************************************************************)
MaxTokens == 3

TokA == <<"-", "9", "8", ".", "2", "0", ",", "2", "6", ".", "0", "7">>

TokB == <<"-", "9", "8", ".", "2", "1", ",", "2", "6", ".", "0", "8">>

TokC == <<"-", "9", "8", ".", "2", "0", ",", "2", "6", ".", "0", "8">>

TokAlt == <<"1", ",", "2", ",", "3">>

TokOneField == <<"7">>

TokEmptyLat == <<"5", ",">>

TokNotNumber == <<"x", ",", "1">>

TokBadAlt == <<"1", ",", "2", ",", "x">>

TokenPool ==
    {TokA, TokB, TokC, TokAlt, TokOneField, TokEmptyLat, TokNotNumber, TokBadAlt}

Separators == {<<" ">>, <<"\n", " ", " ">>}

RECURSIVE Join(_, _)
Join(tokens, sep) ==
    IF tokens = <<>> THEN <<>>
    ELSE IF Len(tokens) = 1 THEN Head(tokens)
    ELSE Head(tokens) \o sep \o Join(Tail(tokens), sep)

TokenSeqs(n) == UNION {[1..k -> TokenPool] : k \in 0..n}

CoordTexts ==
    {pad \o Join(ts, sep) \o pad :
        ts \in TokenSeqs(MaxTokens), sep \in Separators, pad \in {<<>>, <<"\n">>}}

(***************************************************************************)
(* SpecCoords: parse_coordinates applied to a coordinate text.             *)
(***************************************************************************)
CoordsIdle ==
    /\ coord_string = <<>>
    /\ coords = [by |-> "idle", result |-> NotCalled]

GeomIdle ==
    /\ placemark = <<>>
    /\ geometries = [by |-> "idle", result |-> NotCalled]

AsmIdle ==
    /\ features = <<>>
    /\ document = [by |-> "idle", result |-> NotCalled]
    /\ invocation = 0

NoFile == [exists |-> FALSE, content |-> <<>>]

LogIdle ==
    /\ logfile = NoFile
    /\ logfile_before = NoFile
    /\ request = <<>>
    /\ response = "none"
    /\ posted = <<>>
    /\ clock = 0
    /\ served = 0

RunIdle ==
    /\ script = "idle"
    /\ args = <<>>
    /\ kmz_file = NoFile
    /\ mercado_file = NoFile
    /\ pc = "idle"
    /\ run = 0
    /\ date_today = ""
    /\ kml_text = <<>>
    /\ stats = <<>>
    /\ outfile = NoFile
    /\ outfile_before = NoFile
    /\ written = <<>>
    /\ error = "none"

InitCoords ==
    /\ coord_string \in CoordTexts
    /\ coords = [by |-> "none", result |-> NotCalled]
    /\ GeomIdle
    /\ AsmIdle
    /\ RunIdle
    /\ LogIdle

ParseCoordinates ==
    /\ coords.by = "none"
    /\ coords' = [by |-> "convert", result |-> parse_coordinates(coord_string)]
    /\ UNCHANGED <<coord_string, geomVars, asmVars, runVars, logVars>>

SigParseCoordinates ==
    /\ coords.by = "none"
    /\ coords' = [by |-> "sig", result |-> sig_parse_coordinates(coord_string)]
    /\ UNCHANGED <<coord_string, geomVars, asmVars, runVars, logVars>>

NextCoords == ParseCoordinates \/ SigParseCoordinates

SpecCoords == InitCoords /\ [][NextCoords]_vars

(***************************************************************************)
(* What the text holds, read off the tokens.                               *)
(***************************************************************************)
TokensOf(s) == SplitWhitespace(s)

HasTwoFields(tok) == Len(Split(tok, ",")) >= 2

HasTwoNumericFields(tok) ==
    /\ HasTwoFields(tok)
    /\ Float(Split(tok, ",")[1]).ok
    /\ Float(Split(tok, ",")[2]).ok

\* [lat, lon] of a token lon,lat[,alt]
LatLon(tok) == <<Float(Split(tok, ",")[2]).v, Float(Split(tok, ",")[1]).v>>

PairsOf(toks) == [i \in 1..Len(toks) |-> LatLon(toks[i])]

ScenarioText == Join(<<TokA, TokB, TokC>>, <<" ">>)

\* C6: for every coordinate text, parse_coordinates returns normally and its
\* result holds exactly the tokens that have at least 2 numeric fields
\* (a token with fewer is skipped, it never makes the call fail).
C6_MalformedTokenSkipped ==
    coords.by \in {"convert", "sig"} =>
        /\ coords.result.raised = "none"
        /\ coords.result.value =
               PairsOf(SelectSeq(TokensOf(coord_string), HasTwoNumericFields))

\* C9: coordinate-text parsing maps the whitespace-separated tokens
\* lon,lat[,alt] to [lat, lon] pairs: one pair per token with at least 2
\* fields, in the tokens' order, the first two fields swapped, the altitude
\* ignored.  It returns whenever every such token has a numeric lon and lat,
\* and the spec's scenario text gives the spec's scenario list.
C9_PairsSwappedInOrder ==
    coords.by \in {"convert", "sig"} =>
        LET toks == SelectSeq(TokensOf(coord_string), HasTwoFields)
        IN  /\ (\A i \in 1..Len(toks) : HasTwoNumericFields(toks[i]))
                   => coords.result.raised = "none"
            /\ coords.result.raised = "none" => coords.result.value = PairsOf(toks)
            /\ coord_string = ScenarioText =>
                   coords.result.value =
                       << <<2607, -9820>>, <<2608, -9821>>, <<2608, -9820>> >>

\* Witness of C9: a text with an altitude token, a one-field token and
\* several pairs has been parsed.
C9_Witness ==
    /\ coords.by = "convert"
    /\ coord_string = Join(<<TokA, TokOneField, TokAlt>>, <<" ">>)
    /\ coords.result = Returned(<< <<2607, -9820>>, <<200, 100>> >>)

(***************************************************************************)
(* Geometry extraction.  A Placemark's geometry elements are kept in       *)
(* document order; each is a Polygon (with its outer boundary's            *)
(* coordinates element), a LineString or a Point.  el says whether the     *)
(* coordinates element is absent, present without text (ElementTree gives  *)
(* text None) or present with text.                                        *)
(***************************************************************************)
GeometryKinds == {"Polygon", "LineString", "Point"}

Geometry(kind, coordinates) == [coordinates |-> coordinates, geometry |-> kind]

RECURSIVE parse_polygon_loop(_, _)
parse_polygon_loop(elems, polygons) ==
    IF elems = <<>> THEN Returned(polygons)
    ELSE LET e == Head(elems)
         IN  IF e.kind = "Polygon" /\ e.el = "text"
             THEN LET r == parse_coordinates(e.text)
                  IN  IF r.raised # "none" THEN r
                      ELSE parse_polygon_loop(Tail(elems),
                               IF Len(r.value) >= 3
                               THEN Append(polygons, Geometry("Polygon", r.value))
                               ELSE polygons)
             ELSE parse_polygon_loop(Tail(elems), polygons)

parse_polygon(pm) == parse_polygon_loop(pm.elems, <<>>)

RECURSIVE parse_linestring_loop(_, _)
parse_linestring_loop(elems, lines) ==
    IF elems = <<>> THEN Returned(lines)
    ELSE LET e == Head(elems)
         IN  IF e.kind = "LineString" /\ e.el = "text"
             THEN LET r == parse_coordinates(e.text)
                  IN  IF r.raised # "none" THEN r
                      ELSE parse_linestring_loop(Tail(elems),
                               IF Len(r.value) >= 2
                               THEN Append(lines, Geometry("LineString", r.value))
                               ELSE lines)
             ELSE parse_linestring_loop(Tail(elems), lines)

parse_linestring(pm) == parse_linestring_loop(pm.elems, <<>>)

RECURSIVE parse_point_loop(_, _)
parse_point_loop(elems, points) ==
    IF elems = <<>> THEN Returned(points)
    ELSE LET e == Head(elems)
         IN  IF e.kind = "Point" /\ e.el = "text"
             THEN LET r == parse_coordinates(e.text)
                  IN  IF r.raised # "none" THEN r
                      ELSE parse_point_loop(Tail(elems),
                               IF r.value # <<>>
                               THEN Append(points, Geometry("Point", <<r.value[1]>>))
                               ELSE points)
             ELSE parse_point_loop(Tail(elems), points)

parse_point(pm) == parse_point_loop(pm.elems, <<>>)

\* build_SIG_json.py: Polygon before LineString before Point, whatever the
\* document order.
get_geometry_type(pm) ==
    IF \E i \in 1..Len(pm.elems) : pm.elems[i].kind = "Polygon" THEN "Polygon"
    ELSE IF \E i \in 1..Len(pm.elems) : pm.elems[i].kind = "LineString"
         THEN "LineString"
    ELSE IF \E i \in 1..Len(pm.elems) : pm.elems[i].kind = "Point" THEN "Point"
    ELSE "None"

\* pm.find('.//kml:coordinates'): the first coordinates element of the
\* placemark in document order, whatever geometry holds it (0: none).
sig_find_coordinates(pm, kinds) ==
    LET at == {i \in 1..Len(pm.elems) :
                   pm.elems[i].el # "absent" /\ pm.elems[i].kind \in kinds}
    IN  IF at = {} THEN 0 ELSE CHOOSE i \in at : \A j \in at : i <= j

\* extract_from_field_misc, the geometry part of one placemark: the
\* geometries of the feature it appends (none when it continues).
sig_field_geometry(pm) ==
    LET i == sig_find_coordinates(pm, GeometryKinds)
    IN  IF i = 0 THEN Returned(<<>>)
        ELSE IF pm.elems[i].el = "notext" THEN Raised("AttributeError")
        ELSE LET r == sig_parse_coordinates(pm.elems[i].text)
             IN  IF r.raised # "none" THEN r
                 ELSE IF Len(r.value) < 2 THEN Returned(<<>>)
                 ELSE Returned(<<Geometry(get_geometry_type(pm), r.value)>>)

\* extract_from_mercado_transporte, the geometry part of one placemark.
sig_mercado_geometry(pm) ==
    LET i == sig_find_coordinates(pm, {"Polygon"})
    IN  IF i = 0 THEN Returned(<<>>)
        ELSE IF pm.elems[i].el = "notext" THEN Raised("AttributeError")
        ELSE LET r == sig_parse_coordinates(pm.elems[i].text)
             IN  IF r.raised # "none" THEN r
                 ELSE IF Len(r.value) < 3 THEN Returned(<<>>)
                 ELSE Returned(<<Geometry("Polygon", r.value)>>)

(***************************************************************************)
(* Placemarks of the model.                                                *)
(***************************************************************************)
MaxRing == 4

MaxGeoms == 2

RingTokens == <<TokA, TokB, TokC, TokAlt>>

\* A text of n coordinates.
RingText(n) ==
    <<"\n">> \o Join([i \in 1..n |-> RingTokens[((i - 1) % Len(RingTokens)) + 1]],
                     <<" ">>)

\* Two coordinates and a one-field token between them.
TextWithShortToken == Join(<<TokA, TokOneField, TokB>>, <<" ">>)

TextNotNumber == Join(<<TokA, TokNotNumber, TokB>>, <<" ">>)

GeomTexts == {RingText(n) : n \in 0..MaxRing} \cup {TextWithShortToken, TextNotNumber}

GeomElems ==
    [kind : GeometryKinds, el : {"text"}, text : GeomTexts]
        \cup [kind : GeometryKinds, el : {"absent", "notext"}, text : {<<>>}]

Placemarks == [elems : UNION {[1..k -> GeomElems] : k \in 0..MaxGeoms}]

(***************************************************************************)
(* SpecGeom: one geometry extractor applied to a placemark.                *)
(***************************************************************************)
InitGeom ==
    /\ placemark \in Placemarks
    /\ geometries = [by |-> "none", result |-> NotCalled]
    /\ CoordsIdle
    /\ AsmIdle
    /\ RunIdle
    /\ LogIdle

ParsePolygon ==
    /\ geometries.by = "none"
    /\ geometries' = [by |-> "parse_polygon", result |-> parse_polygon(placemark)]
    /\ UNCHANGED <<placemark, coordVars, asmVars, runVars, logVars>>

ParseLinestring ==
    /\ geometries.by = "none"
    /\ geometries' = [by |-> "parse_linestring", result |-> parse_linestring(placemark)]
    /\ UNCHANGED <<placemark, coordVars, asmVars, runVars, logVars>>

ParsePoint ==
    /\ geometries.by = "none"
    /\ geometries' = [by |-> "parse_point", result |-> parse_point(placemark)]
    /\ UNCHANGED <<placemark, coordVars, asmVars, runVars, logVars>>

SigFieldGeometry ==
    /\ geometries.by = "none"
    /\ geometries' = [by |-> "sig_field", result |-> sig_field_geometry(placemark)]
    /\ UNCHANGED <<placemark, coordVars, asmVars, runVars, logVars>>

SigMercadoGeometry ==
    /\ geometries.by = "none"
    /\ geometries' = [by |-> "sig_mercado", result |-> sig_mercado_geometry(placemark)]
    /\ UNCHANGED <<placemark, coordVars, asmVars, runVars, logVars>>

NextGeom ==
    \/ ParsePolygon
    \/ ParseLinestring
    \/ ParsePoint
    \/ SigFieldGeometry
    \/ SigMercadoGeometry

SpecGeom == InitGeom /\ [][NextGeom]_vars

(***************************************************************************)
(* What a placemark holds, read off its elements.                          *)
(***************************************************************************)
\* The coordinates an element's text parses to (none without text).
ElemCoords(e) ==
    IF e.el = "text" THEN parse_coordinates(e.text).value ELSE <<>>

ElemsOfKind(pm, kind) == SelectSeq(pm.elems, LAMBDA e : e.kind = kind)

EmittedOK == geometries.result.raised = "none"

Emitted == geometries.result.value

\* C7: geometry below its kind's minimum point count is dropped and geometry
\* at or above it is kept: a polygon outer ring is emitted if and only if it
\* parses to at least 3 coordinates, a line path if and only if it parses to
\* at least 2 (in whichever script extracts it).
C7_MinimumPointCounts ==
    /\ geometries.by = "parse_polygon" /\ EmittedOK =>
           LET kept == SelectSeq(ElemsOfKind(placemark, "Polygon"),
                                 LAMBDA e : Len(ElemCoords(e)) >= 3)
           IN  Emitted = [i \in 1..Len(kept) |->
                              Geometry("Polygon", ElemCoords(kept[i]))]
    /\ geometries.by = "parse_linestring" /\ EmittedOK =>
           LET kept == SelectSeq(ElemsOfKind(placemark, "LineString"),
                                 LAMBDA e : Len(ElemCoords(e)) >= 2)
           IN  Emitted = [i \in 1..Len(kept) |->
                              Geometry("LineString", ElemCoords(kept[i]))]
    /\ geometries.by \in {"sig_field", "sig_mercado"} /\ EmittedOK =>
           \A i \in 1..Len(Emitted) :
               /\ Emitted[i].geometry = "Polygon" =>
                      Len(Emitted[i].coordinates) >= 3
               /\ Emitted[i].geometry = "LineString" =>
                      Len(Emitted[i].coordinates) >= 2

\* C8: for a Point layer, every placemark with a point whose coordinate text
\* holds at least one valid coordinate yields a Point geometry that holds
\* exactly one coordinate, the first of the text (in whichever script
\* extracts it).
C8_PointKeepsFirstCoordinate ==
    /\ geometries.by = "parse_point" /\ EmittedOK =>
           LET kept == SelectSeq(ElemsOfKind(placemark, "Point"),
                                 LAMBDA e : ElemCoords(e) # <<>>)
           IN  Emitted = [i \in 1..Len(kept) |->
                              Geometry("Point", <<ElemCoords(kept[i])[1]>>)]
    /\ ( /\ geometries.by = "sig_field"
         /\ EmittedOK
         /\ Len(placemark.elems) = 1
         /\ placemark.elems[1].kind = "Point"
         /\ ElemCoords(placemark.elems[1]) # <<>> ) =>
           Emitted = <<Geometry("Point", <<ElemCoords(placemark.elems[1])[1]>>)>>

(***************************************************************************)
(* Configuration tables of the two scripts.                                *)
(***************************************************************************)
L_phases == <<"p", "h", "a", "s", "e", "s">>

L_industrialParks == <<"i", "n", "d", "u", "s", "t", "r", "i", "a", "l", "P", "a", "r", "k", "s">>

L_urbanFootprint == <<"u", "r", "b", "a", "n", "F", "o", "o", "t", "p", "r", "i", "n", "t">>

L_electricity == <<"e", "l", "e", "c", "t", "r", "i", "c", "i", "t", "y">>

L_lots == <<"l", "o", "t", "s">>

L_phaseTwo == <<"p", "h", "a", "s", "e", "T", "w", "o">>

L_poi == <<"p", "o", "i">>

L_empty == <<>>

\* LAYER_CONFIG of convert_kmz_to_lots.py, in the dict's order.  filter is
\* the list of fragments of the entry's lambda (empty: filter None).
LAYER_CONFIG ==
    << [folder_id |-> "FeatureLayer50", layer |-> L_phases, type |-> "inovus_phase",
        geometry |-> "Polygon",
        filter |-> << <<"F", "A", "S", "E", " ", "1">>, <<"F", "A", "S", "E", " ", "2">> >>,
        enabled |-> TRUE],
       [folder_id |-> "FeatureLayer27", layer |-> L_industrialParks,
        type |-> "industrial_park", geometry |-> "Polygon", filter |-> <<>>,
        enabled |-> TRUE],
       [folder_id |-> "FeatureLayer58", layer |-> L_urbanFootprint, type |-> "urban",
        geometry |-> "Polygon", filter |-> <<>>, enabled |-> TRUE],
       [folder_id |-> "FeatureLayer17", layer |-> L_electricity, type |-> "substation",
        geometry |-> "Point", filter |-> <<>>, enabled |-> FALSE],
       [folder_id |-> "FeatureLayer18", layer |-> L_electricity,
        type |-> "distribution_line", geometry |-> "LineString", filter |-> <<>>,
        enabled |-> FALSE],
       [folder_id |-> "FeatureLayer19", layer |-> L_electricity,
        type |-> "transmission_line", geometry |-> "LineString", filter |-> <<>>,
        enabled |-> FALSE] >>

Style(fill, stroke, strokeWidth) ==
    [fill |-> fill, stroke |-> stroke, strokeWidth |-> strokeWidth]

EmptyStyle == [fill |-> "", stroke |-> "", strokeWidth |-> ""]

\* LAYER_STYLES of convert_kmz_to_lots.py: LAYER_STYLES.get(layer_name, {})
LAYER_STYLES(layer_name) ==
    CASE layer_name = L_phases ->
             Style("rgba(127, 223, 255, 0.3)", "rgba(127, 223, 255, 0.7)", "2")
      [] layer_name = L_industrialParks ->
             Style("rgba(215, 187, 158, 0.25)", "rgba(255, 178, 115, 0.7)", "1")
      [] layer_name = L_urbanFootprint ->
             Style("rgba(100, 100, 100, 0.2)", "rgba(150, 150, 150, 0.4)", "0.5")
      [] layer_name = L_electricity ->
             Style("rgba(255, 223, 127, 0.9)", "rgba(0, 255, 85, 0.6)", "2")
      [] OTHER -> EmptyStyle

\* LAYER_STYLES of build_SIG_json.py, in the dict's order; it is the
\* document's 'layers' as it stands.
SIG_LAYER_STYLES ==
    << [name |-> L_phases, enabled |-> TRUE, extra |-> "allowedNames",
        style |-> Style("rgba(255, 140, 0, 0.3)", "None", "0")],
       [name |-> L_electricity, enabled |-> FALSE, extra |-> "",
        style |-> Style("rgba(255, 223, 127, 0.9)", "rgba(0, 255, 85, 0.6)", "2")],
       [name |-> L_urbanFootprint, enabled |-> FALSE, extra |-> "renderOnly",
        style |-> Style("rgba(200, 200, 200, 0.08)", "None", "0")],
       [name |-> L_industrialParks, enabled |-> TRUE, extra |-> "",
        style |-> Style("rgba(100, 100, 100, 0.15)", "None", "0")],
       [name |-> L_lots, enabled |-> TRUE, extra |-> "",
        style |-> Style("rgba(255, 255, 255, 0.08)", "rgba(255, 255, 255, 0.4)", "1")] >>

(***************************************************************************)
(* Feature Assembler: build_lots_json and build_sig_json.                  *)
(***************************************************************************)
NatToDigit(d) ==
    CASE d = 0 -> "0" [] d = 1 -> "1" [] d = 2 -> "2" [] d = 3 -> "3" [] d = 4 -> "4"
      [] d = 5 -> "5" [] d = 6 -> "6" [] d = 7 -> "7" [] d = 8 -> "8" [] d = 9 -> "9"

RECURSIVE NatToDigits(_)
NatToDigits(n) ==
    IF n < 10 THEN <<NatToDigit(n)>>
    ELSE Append(NatToDigits(n \div 10), NatToDigit(n % 10))

\* f"{n:03d}"
Format03d(n) ==
    LET ds == NatToDigits(n)
    IN  IF Len(ds) >= 3 THEN ds
        ELSE [i \in 1..(3 - Len(ds)) |-> "0"] \o ds

\* f"{prefix}_{counter:03d}"
FormatId(prefix, counter) == prefix \o <<"_">> \o Format03d(counter)

\* dict.get(key, 0) on a counter dict kept as a function
CountOf(counts, key) == IF key \in DOMAIN counts THEN counts[key] ELSE 0

Bump(counts, key) ==
    [k \in DOMAIN counts \cup {key} |->
        IF k = key THEN CountOf(counts, key) + 1 ELSE counts[k]]

\* raw.get('layer', 'lots')
RawLayer(raw) == IF raw.has_layer THEN raw.layer ELSE L_lots

\* layer[:4] if layer else 'lot'
lots_prefix(layer) ==
    IF layer # <<>> THEN SubSeq(layer, 1, IF Len(layer) < 4 THEN Len(layer) ELSE 4)
    ELSE <<"l", "o", "t">>

\* The table with the layer name's first 4 characters as its default.
sig_prefix_truncating(layer) ==
    CASE layer = L_phases -> <<"p", "h", "a", "s">>
      [] layer = L_industrialParks -> <<"p", "a", "r", "k">>
      [] layer = L_urbanFootprint -> <<"u", "r", "b", "n">>
      [] layer = L_electricity -> <<"e", "l", "e", "c">>
      [] layer = L_lots -> <<"l", "o", "t">>
      [] OTHER -> SubSeq(layer, 1, IF Len(layer) < 4 THEN Len(layer) ELSE 4)

\* The prefix table of build_sig_json and its default.
sig_prefix(layer) ==
    CASE layer = L_phases -> <<"p", "h", "a", "s">>
      [] layer = L_industrialParks -> <<"p", "a", "r", "k">>
      [] layer = L_urbanFootprint -> <<"u", "r", "b", "n">>
      [] layer = L_electricity -> <<"e", "l", "e", "c">>
      [] layer = L_lots -> <<"l", "o", "t">>
      [] OTHER -> <<"f", "e", "a", "t">>

Lot(id, raw, layer) ==
    [id |-> id, name |-> raw.name, comment |-> raw.description, layer |-> layer,
     type |-> raw.type, polygons |-> raw.polygons]

\* build_lots_json, lines 325-348: the counter dict is keyed by layer.
RECURSIVE build_lots_loop(_, _, _)
build_lots_loop(raw_lots, layer_counts, lots) ==
    IF raw_lots = <<>> THEN lots
    ELSE LET raw    == Head(raw_lots)
             layer  == RawLayer(raw)
             counts == Bump(layer_counts, layer)
             lot_id == FormatId(lots_prefix(layer), counts[layer])
         IN  build_lots_loop(Tail(raw_lots), counts, Append(lots, Lot(lot_id, raw, layer)))

\* build_sig_json, lines 199-222: the counter dict is keyed by prefix.
RECURSIVE build_sig_loop(_, _, _)
build_sig_loop(feats, counters, lots) ==
    IF feats = <<>> THEN lots
    ELSE LET feat     == Head(feats)
             prefix   == sig_prefix(feat.layer)
             counts   == Bump(counters, prefix)
             feat_id  == FormatId(prefix, counts[prefix])
         IN  build_sig_loop(Tail(feats), counts,
                            Append(lots, Lot(feat_id, feat, feat.layer)))

\* The distinct layers of the lots: set(lot.get('layer', 'lots') for lot in lots)
LayerSet(lots) == {lots[i].layer : i \in 1..Len(lots)}

\* The orders in which a set of strings may be iterated (str hashes are
\* salted per process).
Orders(S) ==
    {o \in [1..Cardinality(S) -> S] : \A i, j \in 1..Cardinality(S) : o[i] = o[j] => i = j}

\* LAYER_CONFIG.get(next((k for k, v in ... if v['layer'] == layer_name), ''), {})
\*     .get('enabled', True)
LayerEnabled(layer_name) ==
    LET at == {i \in 1..Len(LAYER_CONFIG) : LAYER_CONFIG[i].layer = layer_name}
    IN  IF at = {} THEN TRUE
        ELSE LAYER_CONFIG[CHOOSE i \in at : \A j \in at : i <= j].enabled

layers_meta(order) ==
    [i \in 1..Len(order) |->
        [name |-> order[i], enabled |-> LayerEnabled(order[i]), extra |-> "",
         style |-> LAYER_STYLES(order[i])]]

\* build_lots_json(raw_lots, source_kmz): order is the iteration order of the
\* set of layers, today the clock's date.
build_lots_json(raw_lots, source_kmz, order, today) ==
    [version |-> "2.0", generated |-> today, source_kmz |-> source_kmz,
     layers |-> layers_meta(order),
     lots |-> build_lots_loop(raw_lots, <<>>, <<>>)]

\* build_sig_json(features); feat['layer'] raises KeyError without the key.
build_sig_json(feats, today) ==
    IF \E i \in 1..Len(feats) : ~feats[i].has_layer THEN Raised("KeyError")
    ELSE Returned([version |-> "2.0", generated |-> today,
                   source_kmz |-> "FIELD_misc_export.kmz + MERCADO_TRANSPORTE.kmz",
                   layers |-> SIG_LAYER_STYLES,
                   lots |-> build_sig_loop(feats, <<>>, <<>>)])

(***************************************************************************)
(* SpecAsm: the assemblers applied to a sequence of features, one call     *)
(* after the other in the same process.                                    *)
(***************************************************************************)
MaxFeatures == 3

MaxInvocations == 2

Dates == {"2026-11-02", "2026-11-03"}

AsmLayers == {L_phases, L_electricity, L_lots, L_phaseTwo, L_poi, L_empty}

\* A feature as the extractors hand it on; without 'layer' from the legacy scan.
Feature(has_layer, layer) ==
    [name |-> <<"n">>, description |-> "", has_layer |-> has_layer, layer |-> layer,
     type |-> "t", polygons |-> <<>>]

AsmFeatures ==
    {Feature(TRUE, l) : l \in AsmLayers} \cup {Feature(FALSE, <<>>)}

FeatureSeqs == UNION {[1..k -> AsmFeatures] : k \in 0..MaxFeatures}

InitAsm ==
    /\ features \in FeatureSeqs
    /\ document = [by |-> "none", result |-> NotCalled]
    /\ invocation = 1
    /\ CoordsIdle
    /\ GeomIdle
    /\ RunIdle
    /\ LogIdle

BuildLotsJson ==
    /\ document.by = "none"
    /\ \E today \in Dates :
       \E order \in Orders(LayerSet(build_lots_loop(features, <<>>, <<>>))) :
           document' = [by |-> "build_lots_json",
                        result |-> Returned(build_lots_json(features, "in.kmz",
                                                            order, today))]
    /\ UNCHANGED <<features, invocation, coordVars, geomVars, runVars, logVars>>

BuildSigJson ==
    /\ document.by = "none"
    /\ \E today \in Dates :
           document' = [by |-> "build_sig_json",
                        result |-> build_sig_json(features, today)]
    /\ UNCHANGED <<features, invocation, coordVars, geomVars, runVars, logVars>>

\* The process calls an assembler again (the earlier call's document is
\* dropped; nothing else of it is kept).
CallAgain ==
    /\ document.by \in {"build_lots_json", "build_sig_json"}
    /\ invocation < MaxInvocations
    /\ invocation' = invocation + 1
    /\ document' = [by |-> "none", result |-> NotCalled]
    /\ UNCHANGED <<features, coordVars, geomVars, runVars, logVars>>

NextAsm == BuildLotsJson \/ BuildSigJson \/ CallAgain

SpecAsm == InitAsm /\ [][NextAsm]_vars

(***************************************************************************)
(* What the document holds, read off its lots.                             *)
(***************************************************************************)
Assembled ==
    /\ document.by \in {"build_lots_json", "build_sig_json"}
    /\ document.result.raised = "none"

DocLots == document.result.value.lots

\* The place of the last "_" of an id (0: none).
LastUnderscore(id) ==
    LET at == {i \in 1..Len(id) : id[i] = "_"}
    IN  IF at = {} THEN 0 ELSE CHOOSE i \in at : \A j \in at : j <= i

IdPrefix(id) == SubSeq(id, 1, LastUnderscore(id) - 1)

IdCounter(id) == SubSeq(id, LastUnderscore(id) + 1, Len(id))

\* The lots of a layer, in output order.
LotsOfLayer(lots, layer) == SelectSeq(lots, LAMBDA lot : lot.layer = layer)

ShortCodes ==
    { <<L_phases, <<"p", "h", "a", "s">> >>,
      <<L_industrialParks, <<"p", "a", "r", "k">> >>,
      <<L_urbanFootprint, <<"u", "r", "b", "n">> >>,
      <<L_electricity, <<"e", "l", "e", "c">> >>,
      <<L_lots, <<"l", "o", "t">> >> }

InShortCodes(layer) == \E e \in ShortCodes : e[1] = layer

\* s[:4]
IsTruncationOf(p, s) ==
    /\ Len(p) = (IF Len(s) < 4 THEN Len(s) ELSE 4)
    /\ \A k \in 1..Len(p) : p[k] = s[k]

\* C3 as stated: the prefix of every lot id is 4 characters long and comes
\* from the short-code table keyed by layer name; for a layer name absent
\* from the table it is the literal truncation of that name.
C3_PrefixFourCharsFromTable ==
    Assembled =>
        \A i \in 1..Len(DocLots) :
            LET p == IdPrefix(DocLots[i].id)
            IN  /\ Len(p) = 4
                /\ IF InShortCodes(DocLots[i].layer)
                   THEN <<DocLots[i].layer, p>> \in ShortCodes
                   ELSE IsTruncationOf(p, DocLots[i].layer)

\* C3 as amended: the prefix of every lot id is 1 to 4 characters long; in
\* build_sig_json it comes from the short-code table keyed by layer name and
\* is 'feat' for a layer name absent from the table; in build_lots_json it is
\* the literal truncation of the layer name to its first 4 characters, 'lot'
\* for an empty layer name.
C3_PrefixBySource ==
    Assembled =>
        \A i \in 1..Len(DocLots) :
            LET p == IdPrefix(DocLots[i].id)
                layer == DocLots[i].layer
            IN  /\ Len(p) >= 1 /\ Len(p) <= 4
                /\ DocLots[i].id = p \o <<"_">> \o IdCounter(DocLots[i].id)
                /\ document.by = "build_sig_json" =>
                       IF InShortCodes(layer) THEN <<layer, p>> \in ShortCodes
                       ELSE p = <<"f", "e", "a", "t">>
                /\ document.by = "build_lots_json" =>
                       IF layer = <<>> THEN p = <<"l", "o", "t">>
                       ELSE IsTruncationOf(p, layer)

\* Witness of C3: build_sig_json has given one lot the table's 3-character
\* code and another, of a layer absent from the table, the default.
C3_Witness ==
    /\ Assembled
    /\ document.by = "build_sig_json"
    /\ \E i, j \in 1..Len(DocLots) :
           /\ DocLots[i].layer = L_lots
           /\ DocLots[i].id = <<"l", "o", "t", "_", "0", "0", "1">>
           /\ DocLots[j].layer = L_poi
           /\ DocLots[j].id = <<"f", "e", "a", "t", "_", "0", "0", "1">>

(***************************************************************************)
(* Feature extraction from the parsed document.  The document is the       *)
(* sequence of its Folder elements in document order; a folder holds its   *)
(* id attribute, the text of its name child and its Placemark children; a  *)
(* placemark holds its name child (absent, without text, or with text) and *)
(* its geometry elements.                                                  *)
(***************************************************************************)
LowerCase ==
    <<"a", "b", "c", "d", "e", "f", "g", "h", "i", "j", "k", "l", "m",
      "n", "o", "p", "q", "r", "s", "t", "u", "v", "w", "x", "y", "z">>

UpperCase ==
    <<"A", "B", "C", "D", "E", "F", "G", "H", "I", "J", "K", "L", "M",
      "N", "O", "P", "Q", "R", "S", "T", "U", "V", "W", "X", "Y", "Z">>

\* str.upper()
Upper(s) ==
    [i \in 1..Len(s) |->
        IF \E k \in 1..Len(LowerCase) : LowerCase[k] = s[i]
        THEN UpperCase[CHOOSE k \in 1..Len(LowerCase) : LowerCase[k] = s[i]]
        ELSE s[i]]

\* needle in hay
Contains(hay, needle) ==
    \E i \in 1..(Len(hay) - Len(needle) + 1) :
        SubSeq(hay, i, i + Len(needle) - 1) = needle

\* str.strip()
RECURSIVE Strip(_)
Strip(s) ==
    IF s = <<>> THEN s
    ELSE IF Head(s) \in Whitespace THEN Strip(Tail(s))
    ELSE IF s[Len(s)] \in Whitespace THEN Strip(SubSeq(s, 1, Len(s) - 1))
    ELSE s

\* get_text(placemark, 'kml:name', KML_NS)
get_text(child) == IF child.el = "text" THEN Strip(child.text) ELSE <<>>

\* The filter on the name as it is written, without upper().
name_filter_case_sensitive(fragments, name) ==
    \E i \in 1..Len(fragments) : Contains(name, fragments[i])

\* The filter of a LAYER_CONFIG entry, kept as its list of fragments:
\* lambda name: any(f'FASE {i}' in name.upper() for i in [1, 2])
name_filter(fragments, name) ==
    \E i \in 1..Len(fragments) : Contains(Upper(name), fragments[i])

\* config.get('filter') applied: name_filter and not name_filter(name)
filtered_out(config, name) ==
    config.filter # <<>> /\ ~name_filter(config.filter, name)

\* The polygon extractor whatever the expected geometry.
parse_geometry_polygon(geometry_type, pm) == parse_polygon(pm)

\* extract_layer, lines 250-258: the extractor of the expected geometry.
parse_geometry(geometry_type, pm) ==
    CASE geometry_type = "Polygon" -> parse_polygon(pm)
      [] geometry_type = "LineString" -> parse_linestring(pm)
      [] geometry_type = "Point" -> parse_point(pm)
      [] OTHER -> Returned(<<>>)

\* extract_layer, lines 260-267: the feature of a placemark is appended when
\* it has geometries; an exception of the extractor leaves the loop.
FeatureAppended(feats, g, name, config) ==
    IF g.raised # "none" THEN g
    ELSE Returned(IF g.value # <<>>
                  THEN Append(feats, [name |-> name, description |-> "",
                                      has_layer |-> TRUE, layer |-> config.layer,
                                      type |-> config.type, polygons |-> g.value])
                  ELSE feats)

\* extract_layer, lines 242-267: the loop over the folder's placemarks;
\* feats is what the loop has so far (Returned) or the exception (Raised).
RECURSIVE extract_layer_loop(_, _, _)
extract_layer_loop(placemarks, config, feats) ==
    IF placemarks = <<>> \/ feats.raised # "none" THEN feats
    ELSE extract_layer_loop(Tail(placemarks), config,
             IF filtered_out(config, get_text(Head(placemarks).name)) THEN feats
             ELSE FeatureAppended(feats.value,
                                  parse_geometry(config.geometry, Head(placemarks)),
                                  get_text(Head(placemarks).name), config))

\* extract_layer that fails when the document has no folder with the id.
extract_layer_strict(root, folder_id, config) ==
    LET at == {i \in 1..Len(root) : root[i].id = folder_id}
    IN  IF at = {} THEN Raised("KeyError")
        ELSE extract_layer_loop(root[CHOOSE i \in at : \A j \in at : i <= j].placemarks,
                                config, Returned(<<>>))

\* extract_layer(root, folder_id, config): the first folder with the id.
extract_layer(root, folder_id, config) ==
    LET at == {i \in 1..Len(root) : root[i].id = folder_id}
    IN  IF at = {} THEN Returned(<<>>)
        ELSE extract_layer_loop(root[CHOOSE i \in at : \A j \in at : i <= j].placemarks,
                                config, Returned(<<>>))

\* layer in layer_filter
InList(x, list) == \E i \in 1..Len(list) : list[i] = x

\* parse_kml_by_layers, lines 280-290: the loop over LAYER_CONFIG.items().
Extended(all_features, r) ==
    IF r.raised # "none" THEN r ELSE Returned(all_features \o r.value)

RECURSIVE parse_kml_by_layers_loop(_, _, _, _)
parse_kml_by_layers_loop(root, configs, layer_filter, all_features) ==
    IF configs = <<>> \/ all_features.raised # "none" THEN all_features
    ELSE parse_kml_by_layers_loop(root, Tail(configs), layer_filter,
             IF layer_filter # <<>> /\ ~InList(Head(configs).layer, layer_filter)
             THEN all_features
             ELSE Extended(all_features.value,
                           extract_layer(root, Head(configs).folder_id, Head(configs))))

\* ET.fromstring(kml_content): the tree, or ParseError.
fromstring(kml_content) ==
    IF kml_content.wellformed THEN Returned(kml_content.root) ELSE Raised("ParseError")

parse_kml_by_layers(kml_content, layer_filter) ==
    LET root == fromstring(kml_content)
    IN  IF root.raised # "none" THEN root
        ELSE parse_kml_by_layers_loop(root.value, LAYER_CONFIG, layer_filter,
                                      Returned(<<>>))

\* root.iter(Placemark): every placemark of the document, in document order.
RECURSIVE AllPlacemarks(_)
AllPlacemarks(root) ==
    IF root = <<>> THEN <<>> ELSE Head(root).placemarks \o AllPlacemarks(Tail(root))

\* The legacy scan done through the registry.
parse_kml_placemarks_by_registry(kml_content) == parse_kml_by_layers(kml_content, <<>>)

\* parse_kml_placemarks, lines 306-311 (legacy): no 'layer', no 'type'.
LegacyAppended(lots, g, name) ==
    IF g.raised # "none" THEN g
    ELSE Returned(IF g.value # <<>>
                  THEN Append(lots, [name |-> name, description |-> "",
                                     has_layer |-> FALSE, layer |-> <<>>,
                                     type |-> "None", polygons |-> g.value])
                  ELSE lots)

\* parse_kml_placemarks, lines 301-313
RECURSIVE parse_kml_placemarks_loop(_, _)
parse_kml_placemarks_loop(placemarks, lots) ==
    IF placemarks = <<>> \/ lots.raised # "none" THEN lots
    ELSE parse_kml_placemarks_loop(Tail(placemarks),
             LegacyAppended(lots.value, parse_polygon(Head(placemarks)),
                            get_text(Head(placemarks).name)))

parse_kml_placemarks(kml_content) ==
    LET root == fromstring(kml_content)
    IN  IF root.raised # "none" THEN root
        ELSE parse_kml_placemarks_loop(AllPlacemarks(root.value), Returned(<<>>))

\* FIELD_LAYERS of build_SIG_json.py: FIELD_LAYERS.get(folder_name); layer
\* <<>> stands for None.
FIELD_LAYERS(folder_name) ==
    CASE folder_name = "Fases" -> [layer |-> L_phases, type |-> "inovus_phase"]
      [] folder_name = "Parques industriales" ->
             [layer |-> L_industrialParks, type |-> "industrial_park"]
      [] folder_name = "Mancha urbana" -> [layer |-> L_urbanFootprint, type |-> "urban"]
      [] folder_name = "SE Eléctricas" -> [layer |-> L_electricity, type |-> "substation"]
      [] folder_name = "Líneas de Distribución" ->
             [layer |-> L_electricity, type |-> "distribution_line"]
      [] folder_name = "Líneas de Transmisión" ->
             [layer |-> L_electricity, type |-> "transmission_line"]
      [] OTHER -> [layer |-> <<>>, type |-> ""]

\* LAYER_STYLES.get(layer, {}).get('allowedNames'); <<>> stands for None.
sig_allowed_names(layer) ==
    IF layer = L_phases THEN << <<"F", "A", "S", "E", " ", "1">>, <<"F", "A", "S", "E", " ", "2">> >> ELSE <<>>

\* pm.find('kml:name').text when the element is there, else '' (lines 123-124).
sig_name(pm) == IF pm.name.el = "text" THEN pm.name.text ELSE <<>>

\* extract_from_field_misc, lines 127-129: allowed is set and no allowed
\* name is in pm_name.upper().
sig_filtered_out(allowed, pm_name) ==
    allowed # <<>> /\ ~\E i \in 1..Len(allowed) : Contains(Upper(pm_name), Upper(allowed[i]))

\* extract_from_field_misc, lines 121-151: one placemark of a folder.
sig_field_placemark(feats, pm, config) ==
    IF sig_allowed_names(config.layer) # <<>> /\ pm.name.el = "notext"
    THEN Raised("AttributeError")
    ELSE IF sig_filtered_out(sig_allowed_names(config.layer), sig_name(pm))
    THEN Returned(feats)
    ELSE FeatureAppended(feats, sig_field_geometry(pm), sig_name(pm), config)

\* extract_from_field_misc, lines 121-151: the loop over a folder's placemarks.
RECURSIVE sig_field_placemarks_loop(_, _, _)
sig_field_placemarks_loop(placemarks, config, feats) ==
    IF placemarks = <<>> \/ feats.raised # "none" THEN feats
    ELSE sig_field_placemarks_loop(Tail(placemarks), config,
                                   sig_field_placemark(feats.value, Head(placemarks), config))

\* extract_from_field_misc, lines 104-151: the loop over the folders.
RECURSIVE sig_field_folders_loop(_, _)
sig_field_folders_loop(folders, feats) ==
    IF folders = <<>> \/ feats.raised # "none" THEN feats
    ELSE sig_field_folders_loop(Tail(folders),
             IF FIELD_LAYERS(Head(folders).name).layer = <<>> THEN feats
             ELSE sig_field_placemarks_loop(Head(folders).placemarks,
                                            FIELD_LAYERS(Head(folders).name), feats))

\* extract_from_mercado_transporte, lines 167-191
RECURSIVE sig_mercado_loop(_, _)
sig_mercado_loop(placemarks, feats) ==
    IF placemarks = <<>> \/ feats.raised # "none" THEN feats
    ELSE sig_mercado_loop(Tail(placemarks),
             FeatureAppended(feats.value, sig_mercado_geometry(Head(placemarks)),
                             sig_name(Head(placemarks)),
                             [layer |-> L_lots, type |-> "yard"]))

(***************************************************************************)
(* Archive Reader.  An archive is a file that exists or not, with its zip  *)
(* entries in archive order; an entry's content is a markup document that  *)
(* is well-formed (with its tree) or not.                                  *)
(***************************************************************************)
DocKml == <<"d", "o", "c", ".", "k", "m", "l">>

\* f.endswith('.kml')
EndsWithKml(name) ==
    Len(name) >= 4 /\ SubSeq(name, Len(name) - 3, Len(name)) = <<".", "k", "m", "l">>

\* The first entry of the archive with the name (0: none).
EntryNamed(kmz, name) ==
    LET at == {i \in 1..Len(kmz.entries) : kmz.entries[i].name = name}
    IN  IF at = {} THEN 0 ELSE CHOOSE i \in at : \A j \in at : i <= j

\* extract_kml_from_kmz(kmz_path) of convert_kmz_to_lots.py
extract_kml_from_kmz(kmz) ==
    IF ~kmz.exists THEN Raised("FileNotFoundError")
    ELSE LET kml_files == SelectSeq(kmz.entries, LAMBDA e : EndsWithKml(e.name))
         IN  IF kml_files = <<>> THEN Raised("ValueError")
             ELSE IF EntryNamed(kmz, DocKml) # 0
                  THEN Returned(kmz.entries[EntryNamed(kmz, DocKml)].content)
                  ELSE Returned(kml_files[1].content)

\* extract_kml(kmz_path) of build_SIG_json.py: z.read('doc.kml')
extract_kml(kmz) ==
    IF EntryNamed(kmz, DocKml) = 0 THEN Raised("KeyError")
    ELSE Returned(kmz.entries[EntryNamed(kmz, DocKml)].content)

\* extract_from_field_misc(kmz_path): a missing archive is skipped.
extract_from_field_misc(kmz) ==
    IF ~kmz.exists THEN Returned(<<>>)
    ELSE LET kml == extract_kml(kmz)
         IN  IF kml.raised # "none" THEN kml
             ELSE LET root == fromstring(kml.value)
                  IN  IF root.raised # "none" THEN root
                      ELSE sig_field_folders_loop(root.value, Returned(<<>>))

\* extract_from_mercado_transporte(kmz_path): a missing archive is skipped.
extract_from_mercado_transporte(kmz) ==
    IF ~kmz.exists THEN Returned(<<>>)
    ELSE LET kml == extract_kml(kmz)
         IN  IF kml.raised # "none" THEN kml
             ELSE LET root == fromstring(kml.value)
                  IN  IF root.raised # "none" THEN root
                      ELSE sig_mercado_loop(AllPlacemarks(root.value), Returned(<<>>))

(***************************************************************************)
(* Statistics, listing and serialisation.                                  *)
(***************************************************************************)
\* The number of lots in place of the number of their geometries.
CountLots(lots) == Len(lots)

RECURSIVE SumLens(_)
SumLens(lots) ==
    IF lots = <<>> THEN 0 ELSE Len(Head(lots).polygons) + SumLens(Tail(lots))

\* All geometries of the lots in order: for lot in lots: for poly in lot['polygons'].
RECURSIVE AllPolys(_)
AllPolys(lots) ==
    IF lots = <<>> THEN <<>> ELSE Head(lots).polygons \o AllPolys(Tail(lots))

\* All coordinate pairs of the geometries in order.
RECURSIVE AllCoords(_)
AllCoords(polys) ==
    IF polys = <<>> THEN <<>> ELSE Head(polys).coordinates \o AllCoords(Tail(polys))

Min(S) == CHOOSE x \in S : \A y \in S : x <= y

\* max() that returns the least element instead
Max_least(S) == Min(S)

Max(S) == CHOOSE x \in S : \A y \in S : x >= y

(***************************************************************************)
(* Coordinate Transformer.  Degrees are kept in hundredths and meters in   *)
(* centimeters: the origin is rounded to a thousandth of a degree and the  *)
(* meters per degree of longitude (111320 * cos(PHARR_LAT), 99996.88) to   *)
(* 10000 cm per thousandth of a degree.                                    *)
(***************************************************************************)
PHARR_LAT == 26067

PHARR_LON == 0 - 98205

METERS_PER_DEG_LAT == 11132

METERS_PER_DEG_LON == 10000

\* (lat - PHARR_LAT) * METERS_PER_DEG_LAT
Y_m(lat) == (lat * 10 - PHARR_LAT) * METERS_PER_DEG_LAT

\* (lon - PHARR_LON) * METERS_PER_DEG_LON
X_m(lon) == (lon * 10 - PHARR_LON) * METERS_PER_DEG_LON

\* The record compute_stats returns, lines 421-430.
Stats(lots, polys, lat_range, lon_range, y_range, x_range) ==
    [num_lots |-> Len(lots),
     num_polygons |-> SumLens(lots),
     by_layer |-> [l \in LayerSet(lots) |->
                      Cardinality({i \in 1..Len(lots) : lots[i].layer = l})],
     by_geometry |-> [k \in GeometryKinds |->
                      Cardinality({i \in 1..Len(polys) : polys[i].geometry = k})],
     lat_range |-> lat_range,
     lon_range |-> lon_range,
     y_range_m |-> y_range,
     x_range_m |-> x_range]

\* compute_stats with the local ranges taken from the geodetic ranges even
\* when there is no coordinate.
compute_stats_unguarded(lots_json) ==
    LET cs   == AllCoords(AllPolys(lots_json.lots))
        lats == {cs[i][1] : i \in 1..Len(cs)} \cup {0}
        lons == {cs[i][2] : i \in 1..Len(cs)} \cup {0}
    IN  Stats(lots_json.lots, AllPolys(lots_json.lots),
              <<Min(lats), Max(lats)>>, <<Min(lons), Max(lons)>>,
              <<Y_m(Min(lats)), Y_m(Max(lats))>>, <<X_m(Min(lons)), X_m(Max(lons))>>)

\* compute_stats(lots_json), lines 383-430.  Every coordinate of the document
\* is a [lat, lon] list, so the isinstance/len test of line 406 passes.
compute_stats(lots_json) ==
    LET cs   == AllCoords(AllPolys(lots_json.lots))
        lats == {cs[i][1] : i \in 1..Len(cs)}
        lons == {cs[i][2] : i \in 1..Len(cs)}
    IN  IF cs # <<>>
        THEN Stats(lots_json.lots, AllPolys(lots_json.lots),
                   <<Min(lats), Max(lats)>>, <<Min(lons), Max(lons)>>,
                   <<Y_m(Min(lats)), Y_m(Max(lats))>>,
                   <<X_m(Min(lons)), X_m(Max(lons))>>)
        ELSE Stats(lots_json.lots, AllPolys(lots_json.lots),
                   <<0, 0>>, <<0, 0>>, <<0, 0>>, <<0, 0>>)

\* pm.iter(kind): the elements of the kind under the placemarks.
RECURSIVE CountKind(_, _)
CountKind(placemarks, kind) ==
    IF placemarks = <<>> THEN 0
    ELSE Len(SelectSeq(Head(placemarks).elems, LAMBDA e : e.kind = kind))
         + CountKind(Tail(placemarks), kind)

\* folder_id in LAYER_CONFIG
Configured(folder_id) == \E i \in 1..Len(LAYER_CONFIG) : LAYER_CONFIG[i].folder_id = folder_id

\* list_layers, lines 196-215: the loop over the folders.
RECURSIVE list_layers_loop(_, _)
list_layers_loop(folders, layers) ==
    IF folders = <<>> THEN layers
    ELSE LET folder == Head(folders)
         IN  list_layers_loop(Tail(folders),
                 IF folder.id # "" \/ folder.placemarks # <<>>
                 THEN Append(layers,
                          [id |-> folder.id, name |-> folder.name,
                           placemarks |-> Len(folder.placemarks),
                           polygons |-> CountKind(folder.placemarks, "Polygon"),
                           lines |-> CountKind(folder.placemarks, "LineString"),
                           points |-> CountKind(folder.placemarks, "Point"),
                           configured |-> Configured(folder.id)])
                 ELSE layers)

list_layers(kml_content) ==
    LET root == fromstring(kml_content)
    IN  IF root.raised # "none" THEN root
        ELSE Returned(list_layers_loop(root.value, <<>>))

\* build_SIG_json.py main(), lines 273-279: the counts of the summary.
layer_counts(sig) ==
    [l \in LayerSet(sig.lots) |->
        Cardinality({i \in 1..Len(sig.lots) : sig.lots[i].layer = l})]

\* json.dump(document): the members in the dicts' insertion order; the
\* 'layers' member keeps the order in which its keys were inserted.
json_dump(doc) ==
    << <<"version", doc.version>>,
       <<"generated", doc.generated>>,
       <<"source_kmz", doc.source_kmz>>,
       <<"layers", [i \in 1..Len(doc.layers) |->
                       <<doc.layers[i].name,
                         [enabled |-> doc.layers[i].enabled, extra |-> doc.layers[i].extra,
                          style |-> doc.layers[i].style]>>]>>,
       <<"lots", doc.lots>> >>

(***************************************************************************)
(* SpecRun and SpecLayer: main() of the two scripts, statement by          *)
(* statement, run up to MaxRuns times on the same archives and arguments.  *)
(***************************************************************************)
MaxRuns == 2

MaxFolders == 2

MaxPlacemarks == 2

N_Fase1Norte == <<"F", "a", "s", "e", " ", "1", " ", "N", "o", "r", "t", "e">>

N_Otro == <<"O", "t", "r", "o">>

N_fase2 == <<" ", "f", "a", "s", "e", " ", "2", " ">>

N_Parque == <<"P", "a", "r", "q", "u", "e">>

N_Externo == <<"E", "x", "t", "e", "r", "n", "o">>

PM(name, elems) == [name |-> [el |-> "text", text |-> name], elems |-> elems]

Unnamed(elems) == [name |-> [el |-> "absent", text |-> <<>>], elems |-> elems]

Elem(kind, n) == [kind |-> kind, el |-> "text", text |-> RingText(n)]

Folder(id, name, placemarks) == [id |-> id, name |-> name, placemarks |-> placemarks]

FolderPool ==
    { Folder("FeatureLayer50", "Fases",
             <<PM(N_Fase1Norte, <<Elem("Polygon", 4)>>), PM(N_Otro, <<Elem("Polygon", 4)>>)>>),
      Folder("FeatureLayer27", "Parques industriales",
             <<PM(N_Parque, <<Elem("Polygon", 3), Elem("Polygon", 4)>>)>>),
      Folder("FeatureLayer17", "SE Eléctricas",
             <<PM(N_Parque, <<Elem("Polygon", 3)>>),
               PM(N_Otro, <<Elem("Polygon", 3), Elem("Point", 1)>>)>>),
      Folder("FeatureLayer99", "Otros", <<PM(N_Externo, <<Elem("Polygon", 3)>>)>>),
      Folder("FeatureLayer98", "Ajenos",
             <<PM(N_Externo, <<[kind |-> "Polygon", el |-> "text", text |-> TextNotNumber]>>)>>),
      Folder("FeatureLayer27", "Parques industriales",
             <<PM(N_Parque, <<[kind |-> "Polygon", el |-> "text", text |-> TextNotNumber]>>)>>) }

SeqsUpTo(S, n) == UNION {[1..k -> S] : k \in 0..n}

WellFormed(root) == [wellformed |-> TRUE, root |-> root]

Malformed == [wellformed |-> FALSE, root |-> <<>>]

Archive(entries) == [exists |-> TRUE, entries |-> entries]

Missing == [exists |-> FALSE, entries |-> <<>>]

Entry(name, content) == [name |-> name, content |-> content]

OtherKml == <<"o", "t", "h", "e", "r", ".", "k", "m", "l">>

ReadmeTxt == <<"r", "e", "a", "d", "m", "e", ".", "t", "x", "t">>

Contents == {Malformed} \cup {WellFormed(r) : r \in SeqsUpTo(FolderPool, MaxFolders)}

Archives ==
    {Missing, Archive(<<>>), Archive(<<Entry(ReadmeTxt, Malformed)>>)}
    \cup {Archive(<<Entry(DocKml, c)>>) : c \in Contents}
    \cup {Archive(<<Entry(OtherKml, c)>>) :
            c \in {Malformed, WellFormed(<<Folder("FeatureLayer27", "Parques industriales",
                                  <<PM(N_Parque, <<Elem("Polygon", 3)>>)>>)>>)}}

MercadoArchives ==
    {Missing, Archive(<<Entry(DocKml, Malformed)>>),
     Archive(<<Entry(DocKml, WellFormed(<<Folder("", "Patios",
                                  <<PM(N_Otro, <<Elem("Polygon", 3)>>)>>)>>))>>)}

Args(legacy, layers, list) == [legacy |-> legacy, layers |-> layers, list_layers |-> list]

ArgsDefault == Args(FALSE, <<>>, FALSE)

ArgsList == Args(FALSE, <<>>, TRUE)

ArgsPool ==
    {ArgsDefault, ArgsList, Args(TRUE, <<>>, FALSE), Args(FALSE, <<L_phases>>, FALSE),
     Args(FALSE, <<L_electricity>>, FALSE), Args(TRUE, <<L_phases>>, FALSE)}

SourceName == "input.kmz"

RunStart ==
    /\ pc = "read"
    /\ run = 1
    /\ date_today = "2026-11-02"
    /\ kml_text = <<>>
    /\ stats = <<>>
    /\ outfile = NoFile
    /\ outfile_before = NoFile
    /\ written = <<>>
    /\ error = "none"
    /\ CoordsIdle
    /\ GeomIdle
    /\ AsmIdle
    /\ LogIdle

InitRun ==
    /\ \/ /\ script = "convert"
          /\ args \in ArgsPool
          /\ kmz_file \in Archives
          /\ mercado_file = NoFile
       \/ /\ script = "build_sig"
          /\ args = <<>>
          /\ kmz_file \in Archives
          /\ mercado_file \in MercadoArchives
    /\ RunStart

\* The filtered folder of the registry with up to MaxPlacemarks placemarks.
LayerNames == {N_Fase1Norte, N_Otro, N_fase2}

LayerElems == {<<Elem("Polygon", 4)>>, <<Elem("Polygon", 2)>>, <<Elem("Point", 1)>>}

LayerPlacemarks ==
    {PM(n, e) : n \in LayerNames, e \in LayerElems} \cup {Unnamed(e) : e \in LayerElems}

InitLayer ==
    /\ \/ /\ script = "convert"
          /\ args \in {ArgsDefault, ArgsList, Args(FALSE, <<L_phases>>, FALSE)}
       \/ /\ script = "build_sig"
          /\ args = <<>>
    /\ \E pms \in SeqsUpTo(LayerPlacemarks, MaxPlacemarks) :
           kmz_file = Archive(<<Entry(DocKml,
                                      WellFormed(<<Folder("FeatureLayer50", "Fases", pms)>>))>>)
    /\ mercado_file = IF script = "build_sig" THEN Missing ELSE NoFile
    /\ RunStart

\* An uncaught exception ends the process.
Abort(exc) ==
    /\ pc' = "aborted"
    /\ error' = exc
    /\ UNCHANGED <<inputVars, run, date_today, kml_text, stats, outfile, outfile_before,
                   written, features, document, invocation, coordVars, geomVars, logVars>>

\* convert main(), lines 451-452
ExtractKmlFromKmz ==
    /\ script = "convert"
    /\ pc = "read"
    /\ LET r == extract_kml_from_kmz(kmz_file)
       IN  IF r.raised # "none" THEN Abort(r.raised)
           ELSE /\ kml_text' = r.value
                /\ pc' = IF args.list_layers THEN "list" ELSE "extract"
                /\ UNCHANGED <<inputVars, run, date_today, stats, outfile, outfile_before,
                               written, error, features, document, invocation,
                               coordVars, geomVars, logVars>>

\* convert main(), lines 455-464
ListLayers ==
    /\ script = "convert"
    /\ pc = "list"
    /\ LET r == list_layers(kml_text)
       IN  IF r.raised # "none" THEN Abort(r.raised)
           ELSE /\ stats' = [by |-> "list_layers", value |-> r.value]
                /\ pc' = "done"
                /\ UNCHANGED <<inputVars, run, date_today, kml_text, outfile,
                               outfile_before, written, error, features, document,
                               invocation, coordVars, geomVars, logVars>>

\* convert main(), lines 466-480
ExtractFeatures ==
    /\ script = "convert"
    /\ pc = "extract"
    /\ LET r == IF args.legacy THEN parse_kml_placemarks(kml_text)
                ELSE parse_kml_by_layers(kml_text, args.layers)
       IN  IF r.raised # "none" THEN Abort(r.raised)
           ELSE /\ features' = r.value
                /\ pc' = "build"
                /\ UNCHANGED <<inputVars, run, date_today, kml_text, stats, outfile,
                               outfile_before, written, error, document, invocation,
                               coordVars, geomVars, logVars>>

\* convert main(), line 482
BuildLots ==
    /\ script = "convert"
    /\ pc = "build"
    /\ \E order \in Orders(LayerSet(build_lots_loop(features, <<>>, <<>>))) :
           document' = [by |-> "build_lots_json",
                        result |-> Returned(build_lots_json(features, SourceName, order,
                                                            date_today))]
    /\ pc' = "stats"
    /\ UNCHANGED <<inputVars, run, date_today, kml_text, stats, outfile, outfile_before,
                   written, error, features, invocation, coordVars, geomVars, logVars>>

\* convert main(), lines 485-492
ComputeStats ==
    /\ script = "convert"
    /\ pc = "stats"
    /\ stats' = [by |-> "compute_stats", value |-> compute_stats(document.result.value)]
    /\ pc' = "write"
    /\ UNCHANGED <<inputVars, run, date_today, kml_text, outfile, outfile_before,
                   written, error, features, document, invocation, coordVars, geomVars, logVars>>

\* convert main(), lines 495-498
WriteOutput ==
    /\ script = "convert"
    /\ pc = "write"
    /\ outfile' = [exists |-> TRUE, content |-> json_dump(document.result.value)]
    /\ written' = Append(written, json_dump(document.result.value))
    /\ pc' = "done"
    /\ UNCHANGED <<inputVars, run, date_today, kml_text, stats, outfile_before, error,
                   features, document, invocation, coordVars, geomVars, logVars>>

\* build_SIG main(), lines 261-262
SigExtractField ==
    /\ script = "build_sig"
    /\ pc = "read"
    /\ LET r == extract_from_field_misc(kmz_file)
       IN  IF r.raised # "none" THEN Abort(r.raised)
           ELSE /\ features' = r.value
                /\ pc' = "mercado"
                /\ UNCHANGED <<inputVars, run, date_today, kml_text, stats, outfile,
                               outfile_before, written, error, document, invocation,
                               coordVars, geomVars, logVars>>

\* build_SIG main(), line 263
SigExtractMercado ==
    /\ script = "build_sig"
    /\ pc = "mercado"
    /\ LET r == extract_from_mercado_transporte(mercado_file)
       IN  IF r.raised # "none" THEN Abort(r.raised)
           ELSE /\ features' = features \o r.value
                /\ pc' = "build"
                /\ UNCHANGED <<inputVars, run, date_today, kml_text, stats, outfile,
                               outfile_before, written, error, document, invocation,
                               coordVars, geomVars, logVars>>

\* build_SIG main(), line 266
SigBuild ==
    /\ script = "build_sig"
    /\ pc = "build"
    /\ LET r == build_sig_json(features, date_today)
       IN  IF r.raised # "none" THEN Abort(r.raised)
           ELSE /\ document' = [by |-> "build_sig_json", result |-> r]
                /\ pc' = "write"
                /\ UNCHANGED <<inputVars, run, date_today, kml_text, stats, outfile,
                               outfile_before, written, error, features, invocation,
                               coordVars, geomVars, logVars>>

\* build_SIG main(), lines 268-270
SigWrite ==
    /\ script = "build_sig"
    /\ pc = "write"
    /\ outfile' = [exists |-> TRUE, content |-> json_dump(document.result.value)]
    /\ written' = Append(written, json_dump(document.result.value))
    /\ pc' = "summary"
    /\ UNCHANGED <<inputVars, run, date_today, kml_text, stats, outfile_before, error,
                   features, document, invocation, coordVars, geomVars, logVars>>

\* build_SIG main(), lines 273-279
SigSummary ==
    /\ script = "build_sig"
    /\ pc = "summary"
    /\ stats' = [by |-> "summary", value |-> layer_counts(document.result.value)]
    /\ pc' = "done"
    /\ UNCHANGED <<inputVars, run, date_today, kml_text, outfile, outfile_before,
                   written, error, features, document, invocation, coordVars, geomVars, logVars>>

\* The script is started again on the same archives with the same arguments;
\* the output path still holds what the runs before left there.
RunAgain ==
    /\ pc \in {"done", "aborted"}
    /\ run < MaxRuns
    /\ run' = run + 1
    /\ pc' = "read"
    /\ date_today' \in Dates
    /\ outfile_before' = outfile
    /\ kml_text' = <<>>
    /\ stats' = <<>>
    /\ error' = "none"
    /\ features' = <<>>
    /\ document' = [by |-> "idle", result |-> NotCalled]
    /\ UNCHANGED <<inputVars, outfile, written, invocation, coordVars, geomVars, logVars>>

NextRun ==
    \/ ExtractKmlFromKmz
    \/ ListLayers
    \/ ExtractFeatures
    \/ BuildLots
    \/ ComputeStats
    \/ WriteOutput
    \/ SigExtractField
    \/ SigExtractMercado
    \/ SigBuild
    \/ SigWrite
    \/ SigSummary
    \/ RunAgain

SpecRun == InitRun /\ [][NextRun]_vars

SpecLayer == InitLayer /\ [][NextRun]_vars

(***************************************************************************)
(* What the runs leave at the output path.                                 *)
(***************************************************************************)
\* The members of a serialised document other than 'generated'.
WithoutGenerated(json) == SelectSeq(json, LAMBDA m : m[1] # "generated")

\* C4: two runs on the same archive with the same arguments write the same
\* serialised document except for the value of 'generated': the same keys of
\* 'layers' in the same order, the same lots with the same ids in the same
\* order.
C4_RunsWriteSameDocument ==
    Len(written) >= 2 => WithoutGenerated(written[1]) = WithoutGenerated(written[2])

\* The archive is missing, holds no markup document, or holds markup that
\* does not parse.
KmlEntries(a) == SelectSeq(a.entries, LAMBDA e : EndsWithKml(e.name))

FatalArchive(a) ==
    \/ ~a.exists
    \/ KmlEntries(a) = <<>>
    \/ \E i \in 1..Len(KmlEntries(a)) : ~KmlEntries(a)[i].content.wellformed

InputArchives == IF script = "convert" THEN {kmz_file} ELSE {kmz_file, mercado_file}

RunEnded == pc \in {"done", "aborted"}

\* C5: a run whose archive is missing, holds no markup document or holds
\* markup that does not parse ends with an error and leaves the output path as
\* it found it; no aborted run leaves anything new at the output path, and
\* what a run leaves there was written after extraction and assembly
\* succeeded.
C5_FatalErrorLeavesNoOutput ==
    /\ (RunEnded /\ \E a \in InputArchives : FatalArchive(a)) =>
           /\ pc = "aborted"
           /\ error # "none"
           /\ outfile = outfile_before
           /\ (run = 1 => written = <<>>)
    /\ pc = "aborted" => outfile = outfile_before /\ (run = 1 => written = <<>>)
    /\ (RunEnded /\ outfile # outfile_before) =>
           /\ Assembled
           /\ outfile.content = json_dump(document.result.value)

\* The placemarks of the folder of the filtered layer, as the archive holds them.
FilteredFolder == kmz_file.entries[1].content.root[1].placemarks

Fragments == <<<<"F", "A", "S", "E", " ", "1">>, <<"F", "A", "S", "E", " ", "2">>>>

NameOf(pm) == IF pm.name.el = "text" THEN pm.name.text ELSE <<>>

ContainsFragment(pm) ==
    \E i \in 1..Len(Fragments) : Contains(Upper(NameOf(pm)), Upper(Fragments[i]))

HasValidRing(pm) ==
    \E i \in 1..Len(pm.elems) :
        /\ pm.elems[i].kind = "Polygon"
        /\ pm.elems[i].el = "text"
        /\ Len(SelectSeq(TokensOf(pm.elems[i].text), HasTwoNumericFields)) >= 3

\* The lots of the document at the output path.
OutputLots == outfile.content[5][2]

ConvertWroteLayers ==
    /\ script = "convert"
    /\ pc = "done"
    /\ ~args.list_layers
    /\ outfile.exists

ScenarioFolder ==
    FilteredFolder = <<PM(N_Fase1Norte, <<Elem("Polygon", 4)>>),
                       PM(N_Otro, <<Elem("Polygon", 4)>>)>>

\* C10: the output of a run of convert on the folder of the filtered layer
\* 'phases' holds one feature for each placemark of the folder whose name
\* contains "FASE 1" or "FASE 2" whatever the case of its letters and that has
\* a ring of 3 or more coordinates, in the folder's order, and no other
\* feature; for the placemarks "Fase 1 Norte" and "Otro" with 4-point rings
\* it holds exactly one feature, of layer "phases" with id "phas_001".
C10_NameFilterAllowList ==
    ConvertWroteLayers =>
        LET expected == SelectSeq(FilteredFolder,
                                  LAMBDA pm : ContainsFragment(pm) /\ HasValidRing(pm))
        IN  /\ Len(OutputLots) = Len(expected)
            /\ \A i \in 1..Len(expected) :
                   /\ OutputLots[i].name = Strip(NameOf(expected[i]))
                   /\ OutputLots[i].layer = L_phases
            /\ ScenarioFolder =>
                   /\ Len(OutputLots) = 1
                   /\ OutputLots[1].layer = L_phases
                   /\ OutputLots[1].id = <<"p", "h", "a", "s", "_", "0", "0", "1">>
                   /\ OutputLots[1].name = N_Fase1Norte

\* C10 witness: convert has written the document of the two placemarks
\* "Fase 1 Norte" and "Otro" and it holds the one feature phas_001.
C10_Witness ==
    /\ ConvertWroteLayers
    /\ ScenarioFolder
    /\ Len(OutputLots) = 1
    /\ OutputLots[1].id = <<"p", "h", "a", "s", "_", "0", "0", "1">>

(***************************************************************************)
(* Folders and the registry.                                               *)
(***************************************************************************)
\* The run reads a markup document that parses: convert takes the archive's
\* .kml entry, build_sig the entry doc.kml.
ReadsMarkup ==
    /\ kmz_file.exists
    /\ KmlEntries(kmz_file) # <<>>
    /\ KmlEntries(kmz_file)[1].content.wellformed
    /\ script = "build_sig" => KmlEntries(kmz_file)[1].name = DocKml

InputFolders == KmlEntries(kmz_file)[1].content.root

RegistryRun == script = "convert" /\ ~args.legacy /\ ~args.list_layers

RegistryIds == {LAYER_CONFIG[i].folder_id : i \in 1..Len(LAYER_CONFIG)}

RegistryNames ==
    {"Fases", "Parques industriales", "Mancha urbana", "SE Eléctricas",
     "Líneas de Distribución", "Líneas de Transmisión"}

HasBadToken(text) ==
    \E i \in 1..Len(TokensOf(text)) :
        HasTwoFields(TokensOf(text)[i]) /\ ~HasTwoNumericFields(TokensOf(text)[i])

FolderHasBadText(f) ==
    \E i \in 1..Len(f.placemarks) : \E j \in 1..Len(f.placemarks[i].elems) :
        /\ f.placemarks[i].elems[j].el = "text"
        /\ HasBadToken(f.placemarks[i].elems[j].text)

PresentIds == {InputFolders[i].id : i \in 1..Len(InputFolders)}

StatsComputed ==
    /\ script = "convert"
    /\ pc \in {"write", "done"}
    /\ stats # <<>>
    /\ stats.by = "compute_stats"

\* C12: when the extraction of a run of convert yields no features, nothing
\* after it fails, the statistics are 0 features, 0 geometries, 0 for each of
\* the three geometry kinds and the range (0, 0) for latitude, longitude, y
\* and x, and the document written has an empty list of lots.
C12_NoFeaturesZeroStatistics ==
    /\ (script = "convert" /\ ~args.list_layers /\ features = <<>>
        /\ pc \in {"build", "stats", "write", "done"}) => error = "none"
    /\ (StatsComputed /\ features = <<>>) =>
           /\ stats.value.num_lots = 0
           /\ stats.value.num_polygons = 0
           /\ \A k \in {"Polygon", "LineString", "Point"} : stats.value.by_geometry[k] = 0
           /\ stats.value.lat_range = <<0, 0>>
           /\ stats.value.lon_range = <<0, 0>>
           /\ stats.value.y_range_m = <<0, 0>>
           /\ stats.value.x_range_m = <<0, 0>>
           /\ DocLots = <<>>
           /\ pc = "done" => outfile.exists /\ OutputLots = <<>>

\* C12 witness: a run of convert on an archive whose document has folders but
\* none that yields a feature has written its document.
C12_Witness ==
    /\ StatsComputed
    /\ pc = "done"
    /\ features = <<>>
    /\ InputFolders # <<>>
    /\ outfile.exists
    /\ stats.value.num_lots = 0

(***************************************************************************)
(* The 'layers' mapping of the document.                                   *)
(***************************************************************************)
DocLayers == document.result.value.layers

\* The registry's enabled flag of a layer, true for a layer in no entry.
RegistryEnabled(layer) ==
    \A i \in 1..Len(LAYER_CONFIG) : LAYER_CONFIG[i].layer = layer => LAYER_CONFIG[i].enabled

\* C13: the 'layers' mapping of an assembled document has one entry for each
\* layer that occurs among its lots and no other entry; an entry's 'enabled'
\* is the registry's flag of the layer (true without a registry entry) and,
\* in convert, its 'style' is the style table's record of the layer (the
\* empty record without one).
C13_LayersMetadataMatchesLots ==
    (Assembled /\ script \in {"convert", "build_sig"}) =>
        /\ {DocLayers[i].name : i \in 1..Len(DocLayers)} = LayerSet(DocLots)
        /\ \A i, j \in 1..Len(DocLayers) : DocLayers[i].name = DocLayers[j].name => i = j
        /\ \A i \in 1..Len(DocLayers) :
               /\ DocLayers[i].enabled = RegistryEnabled(DocLayers[i].name)
               /\ script = "convert" => DocLayers[i].style = LAYER_STYLES(DocLayers[i].name)

\* The same statement for the documents of convert alone.
C13_ConvertLayersMetadata == script = "convert" => C13_LayersMetadataMatchesLots

(***************************************************************************)
(* Legacy mode.                                                            *)
(***************************************************************************)
LegacyRun == script = "convert" /\ args.legacy /\ ~args.list_layers

\* The rings of 3 or more coordinates of a placemark.
ValidRings(pm) ==
    SelectSeq(pm.elems,
              LAMBDA e : /\ e.kind = "Polygon"
                         /\ e.el = "text"
                         /\ Len(SelectSeq(TokensOf(e.text), HasTwoNumericFields)) >= 3)

\* C14: the output of a legacy run holds one lot for each placemark of the
\* document that has a ring of 3 or more coordinates, in document order,
\* whatever its folder, its name and the --layers list, with all the
\* placemark's rings, the layer 'lots' and no type; the output of a registry
\* run holds no lot of the layer 'lots' and no lot without a type.
C14_LegacyBypassesRegistry ==
    /\ (LegacyRun /\ pc = "done") =>
           LET expected == SelectSeq(AllPlacemarks(InputFolders), HasValidRing)
           IN  /\ Len(OutputLots) = Len(expected)
               /\ \A i \in 1..Len(expected) :
                      /\ OutputLots[i].name = Strip(NameOf(expected[i]))
                      /\ OutputLots[i].layer = L_lots
                      /\ OutputLots[i].type = "None"
                      /\ Len(OutputLots[i].polygons) = Len(ValidRings(expected[i]))
    /\ (RegistryRun /\ pc = "done") =>
           \A i \in 1..Len(OutputLots) :
               OutputLots[i].layer # L_lots /\ OutputLots[i].type # "None"

\* C14 witness: a legacy run with a --layers list has written lots of a
\* placemark the name filter rejects and of a placemark of a folder outside
\* the registry.
C14_Witness ==
    /\ LegacyRun
    /\ pc = "done"
    /\ args.layers # <<>>
    /\ \E i \in 1..Len(OutputLots) : OutputLots[i].name = N_Otro
    /\ \E i \in 1..Len(OutputLots) : OutputLots[i].name = N_Externo

(***************************************************************************)
(* SpecArchive: the two archive readers applied to an archive of up to     *)
(* MaxEntries entries with distinct names.                                 *)
(***************************************************************************)
MaxEntries == 2

ZonaKml == <<"z", "o", "n", "a", ".", "k", "m", "l">>

EntryNames == {DocKml, OtherKml, ZonaKml, ReadmeTxt}

EntryContents == {Malformed, WellFormed(<<>>)}

ArchivePool ==
    {Archive(es) : es \in {e \in SeqsUpTo({Entry(n, c) : n \in EntryNames, c \in EntryContents},
                                          MaxEntries) :
                              \A i, j \in 1..Len(e) : e[i].name = e[j].name => i = j}}

InitArchive ==
    /\ kmz_file \in ArchivePool
    /\ kml_text = [by |-> "none", result |-> NotCalled]
    /\ script = "idle"
    /\ args = <<>>
    /\ mercado_file = NoFile
    /\ pc = "idle"
    /\ run = 0
    /\ date_today = ""
    /\ stats = <<>>
    /\ outfile = NoFile
    /\ outfile_before = NoFile
    /\ written = <<>>
    /\ error = "none"
    /\ CoordsIdle
    /\ GeomIdle
    /\ AsmIdle
    /\ LogIdle

\* extract_kml_from_kmz(kmz_path) of convert_kmz_to_lots.py is called.
CallExtractKmlFromKmz ==
    /\ kml_text.by = "none"
    /\ kml_text' = [by |-> "extract_kml_from_kmz", result |-> extract_kml_from_kmz(kmz_file)]
    /\ UNCHANGED <<inputVars, pc, run, date_today, stats, outfile, outfile_before, written,
                   error, asmVars, coordVars, geomVars, logVars>>

\* extract_kml(kmz_path) of build_SIG_json.py is called.
CallExtractKml ==
    /\ kml_text.by = "none"
    /\ kml_text' = [by |-> "extract_kml", result |-> extract_kml(kmz_file)]
    /\ UNCHANGED <<inputVars, pc, run, date_today, stats, outfile, outfile_before, written,
                   error, asmVars, coordVars, geomVars, logVars>>

NextArchive == CallExtractKmlFromKmz \/ CallExtractKml

SpecArchive == InitArchive /\ [][NextArchive]_vars

\* The content of the archive's entry doc.kml, else of its first entry with
\* the extension .kml.
PreferredMarkup(a) ==
    IF \E i \in 1..Len(a.entries) : a.entries[i].name = DocKml
    THEN a.entries[CHOOSE i \in 1..Len(a.entries) : a.entries[i].name = DocKml].content
    ELSE KmlEntries(a)[1].content

\* C15: a reader called on an archive returns the content of the entry
\* doc.kml when the archive has one, else the content of its first entry with
\* the extension .kml, and it fails if and only if the archive has no entry
\* with the extension .kml.
C15_ReaderPrefersCanonicalName ==
    kml_text.by \in {"extract_kml_from_kmz", "extract_kml"} =>
        /\ kml_text.result.raised # "none" <=> KmlEntries(kmz_file) = <<>>
        /\ KmlEntries(kmz_file) # <<>> =>
               /\ kml_text.result.raised = "none"
               /\ kml_text.result.value = PreferredMarkup(kmz_file)

\* The same statement for extract_kml_from_kmz alone.
C15_ConvertReader == kml_text.by = "extract_kml_from_kmz" => C15_ReaderPrefersCanonicalName

(***************************************************************************)
(* The bounding boxes of the statistics.                                   *)
(***************************************************************************)
\* All [lat, lon] pairs of the assembled document.
DocCoords == AllCoords(AllPolys(DocLots))

\* r is <<lowest, highest>> of the values of S.
IsRangeOf(r, S) ==
    /\ r[1] \in S
    /\ r[2] \in S
    /\ \A v \in S : r[1] <= v /\ v <= r[2]

RECURSIVE SumOver(_, _)
SumOver(f, S) ==
    IF S = {} THEN 0
    ELSE LET k == CHOOSE x \in S : TRUE
         IN  f[k] + SumOver(f, S \ {k})

\* C17: in the statistics of a document the per-layer counts sum to
\* num_lots, the number of lots; the per-geometry-kind counts sum to
\* num_polygons, the sum of the lengths of the lots' geometry lists; and the
\* layers with a per-layer count are exactly the layers of the lots.
C17_StatisticsConsistent ==
    StatsComputed =>
        LET st == stats.value
        IN  /\ st.num_lots = Len(DocLots)
            /\ SumOver(st.by_layer, DOMAIN st.by_layer) = st.num_lots
            /\ st.num_polygons = Len(AllPolys(DocLots))
            /\ SumOver(st.by_geometry, DOMAIN st.by_geometry) = st.num_polygons
            /\ DOMAIN st.by_layer = {DocLots[i].layer : i \in 1..Len(DocLots)}
            /\ \A l \in DOMAIN st.by_layer : st.by_layer[l] >= 1

\* C17 witness: statistics of a document with lots of two layers and a lot
\* of two geometries.
C17_Witness ==
    /\ StatsComputed
    /\ Cardinality(DOMAIN stats.value.by_layer) >= 2
    /\ stats.value.num_polygons > stats.value.num_lots
    /\ \E i \in 1..Len(DocLots) : Len(DocLots[i].polygons) = 2

(***************************************************************************)
(* The lots of a registry run and the registry entries behind them.        *)
(***************************************************************************)
\* The coordinates a geometry element of the kind holds, counted on its text.
NumericTokens(e) ==
    IF e.el = "text" THEN Len(SelectSeq(TokensOf(e.text), HasTwoNumericFields)) ELSE 0

\* The least number of coordinates of a geometry of the kind.
MinimumOf(kind) == IF kind = "Polygon" THEN 3 ELSE IF kind = "LineString" THEN 2 ELSE 1

\* The placemark has a valid geometry of the kind.
HasValidGeometry(pm, kind) ==
    \E j \in 1..Len(pm.elems) :
        pm.elems[j].kind = kind /\ NumericTokens(pm.elems[j]) >= MinimumOf(kind)

\* The registry entry is selected by --layers.
Selected(entry) ==
    args.layers = <<>> \/ \E j \in 1..Len(args.layers) : args.layers[j] = entry.layer

\* The first folder of the document with the id, as a sequence of 0 or 1.
FirstFolder(id) ==
    LET at == {i \in 1..Len(InputFolders) : InputFolders[i].id = id}
    IN  IF at = {} THEN <<>> ELSE <<InputFolders[CHOOSE i \in at : \A j \in at : i <= j]>>

\* The placemarks of the entry's folder that give a lot.
Yielding(entry) ==
    IF ~Selected(entry) \/ FirstFolder(entry.folder_id) = <<>> THEN <<>>
    ELSE SelectSeq(FirstFolder(entry.folder_id)[1].placemarks,
                   LAMBDA pm : /\ HasValidGeometry(pm, entry.geometry)
                               /\ entry.filter # <<>> => ContainsFragment(pm))

RECURSIVE YieldingAll(_)
YieldingAll(entries) ==
    IF entries = <<>> THEN <<>>
    ELSE Yielding(Head(entries)) \o YieldingAll(Tail(entries))

\* C18: in the output of a registry run every lot has at least one geometry,
\* all its geometries have the geometry kind of a registry entry whose layer
\* and type are the lot's, a placemark without valid geometry of the expected
\* kind gives no lot (the lots are those of the placemarks that have one, in
\* order), and the id counters of a layer run 1, 2, ... over its lots without
\* a gap.
C18_LotsWellFormed ==
    (RegistryRun /\ pc = "done") =>
        /\ \A k \in 1..Len(OutputLots) :
               /\ Len(OutputLots[k].polygons) >= 1
               /\ \E i \in 1..Len(LAYER_CONFIG) :
                      /\ OutputLots[k].layer = LAYER_CONFIG[i].layer
                      /\ OutputLots[k].type = LAYER_CONFIG[i].type
                      /\ \A g \in 1..Len(OutputLots[k].polygons) :
                             OutputLots[k].polygons[g].geometry = LAYER_CONFIG[i].geometry
        /\ Len(OutputLots) = Len(YieldingAll(LAYER_CONFIG))
        /\ \A k \in 1..Len(OutputLots) :
               OutputLots[k].name = Strip(NameOf(YieldingAll(LAYER_CONFIG)[k]))
        /\ \A k \in 1..Len(OutputLots) :
               DigitsToNat(IdCounter(OutputLots[k].id)) =
                   Cardinality({j \in 1..k : OutputLots[j].layer = OutputLots[k].layer})

\* C18 witness: a registry run has written the lot of the second placemark
\* of the point folder, whose first placemark has no point: one lot of
\* layer electricity, with counter 1 and a single Point geometry.
C18_Witness ==
    /\ RegistryRun
    /\ pc = "done"
    /\ \E i \in 1..Len(InputFolders) : InputFolders[i].id = "FeatureLayer17"
    /\ \E k \in 1..Len(OutputLots) :
           /\ OutputLots[k].layer = L_electricity
           /\ OutputLots[k].name = N_Otro
           /\ DigitsToNat(IdCounter(OutputLots[k].id)) = 1
           /\ Len(OutputLots[k].polygons) = 1
           /\ OutputLots[k].polygons[1].geometry = "Point"

(***************************************************************************)
(* Log relay: LogHandler.do_POST of log_server.py.  The server is a        *)
(* single-threaded HTTPServer, so requests are handled one at a time, in   *)
(* arrival order; each action below is one whole do_POST call.             *)
(***************************************************************************)
MaxRequests == 3

CRITICAL_PATTERNS ==
    <<
       <<"[", "D", "i", "r", "e", "c", "t", "o", "r", "]">>,
       <<"S", "c", "e", "n", "a", "r", "i", "o", ":">>,
       <<"a", "l", "p", "h", "a", ":">>,
       <<"Q", "u", "e", "u", "e", " ", "p", "h", "a", "s", "e">>,
       <<"L", "o", "c", "a", "l", " ", "s", "i", "m">>,
       <<"S", "T", "A", "R", "T", "E", "D">>,
       <<"E", "N", "D", "E", "D">>,
       <<"S", "n", "a", "p", "p", "e", "d">>,
       <<"T", "r", "a", "n", "s", "i", "t", "i", "o", "n">>,
       <<"C", "l", "o", "c", "k", " ", "m", "o", "n", "t", "a", "g", "e">>,
       <<"M", "e", "t", "r", "i", "c", "s">>,
       <<"[", "L", "O", "T", " ", "F", "I", "L", "L", "S", "]">>,
       <<"[", "P", "H", "I", "]">>,
       <<"[", "R", "E", "B", "U", "I", "L", "D">>,
       <<"[", "B", "U", "I", "L", "D", "]">>,
       <<"[", "S", "A", "B">>,
       <<"l", "o", "t", "D", "r", "a", "i", "n", "i", "n", "g">>,
       <<"l", "o", "t", " ", "a", "d", "m", "i", "s", "s", "i", "o", "n">>
    >>

\* any(p in msg for p in CRITICAL_PATTERNS)
Critical(msg) ==
    \E i \in 1..Len(CRITICAL_PATTERNS) : Contains(msg, CRITICAL_PATTERNS[i])

\* datetime.now().strftime("%H:%M:%S.%f")[:-3], for a clock that counts the
\* milliseconds since midnight and stays below one second
strftime(now) == <<"0", "0", ":", "0", "0", ":", "0", "0", ".">> \o Format03d(now)

\* f"[{ts}] {msg}"
format_line(ts, msg) == <<"[">> \o ts \o <<"]", " ">> \o msg

\* open(LOGFILE, "w").close()
truncated == [exists |-> TRUE, content |-> <<>>]

\* with open(LOGFILE, "a") as f: f.write(text)
appended(file, text) == [exists |-> TRUE, content |-> file.content \o text]

\* Request bodies: a JSON object with a text "msg", a JSON object without
\* "msg", a JSON object whose "msg" is a number, and a body that is not JSON.
Body(kind, msg) == [kind |-> kind, msg |-> msg]

M_Started == <<"S", "T", "A", "R", "T", "E", "D">>

M_Noise == <<"n", "o", "i", "s", "e">>

M_started == <<"s", "t", "a", "r", "t", "e", "d">>

M_EndedTwoLines == <<"E", "N", "D", "E", "D", "\n", "x">>

M_Phi == <<"a", " ", "[", "P", "H", "I", "]">>

Bodies ==
    { Body("object", M_Started), Body("object", M_Noise), Body("object", M_started),
      Body("object", M_EndedTwoLines), Body("object", M_Phi),
      Body("object_no_msg", <<>>), Body("object_msg_number", <<>>),
      Body("not_json", <<>>) }

OtherPaths == {"/other", "/log?x=1", "/"}

\* json.loads(body)
json_loads(body) ==
    IF body.kind = "not_json" THEN Raised("JSONDecodeError") ELSE Returned(body)

\* data.get("msg", "") followed by the pattern test, which raises for a
\* msg that is not text
data_get_msg(data) ==
    IF data.kind = "object_no_msg" THEN Returned(<<>>)
    ELSE IF data.kind = "object_msg_number" THEN Raised("TypeError")
    ELSE Returned(data.msg)

\* the file after do_POST wrote the message, or unchanged when it is filtered
log_written(file, msg, now) ==
    IF Critical(msg) THEN appended(file, format_line(strftime(now), msg) \o <<"\n">>)
    ELSE file

Handled(path, body, status, file, history, now) ==
    /\ served < MaxRequests
    /\ served' = served + 1
    /\ request' = [path |-> path, body |-> body]
    /\ response' = status
    /\ logfile_before' = logfile
    /\ logfile' = file
    /\ posted' = history
    /\ clock' = now
    /\ UNCHANGED <<coordVars, geomVars, asmVars, runVars>>

\* if self.path == "/clear"
PostClear ==
    \E now \in {clock, clock + 1} :
        Handled("/clear", Body("none", <<>>), "200", truncated, <<>>, now)

\* if self.path == "/log"
PostLog ==
    \E body \in Bodies, now \in {clock, clock + 1} :
        LET data == json_loads(body)
            msg == IF data.raised = "none" THEN data_get_msg(data.value) ELSE data
        IN  IF msg.raised # "none"
            THEN Handled("/log", body, "none", logfile, posted, now)
            ELSE Handled("/log", body, "200", log_written(logfile, msg.value, now),
                         IF body.kind = "object" THEN Append(posted, body.msg) ELSE posted,
                         now)

\* any other path
PostOther ==
    \E path \in OtherPaths, now \in {clock, clock + 1} :
        Handled(path, Body("none", <<>>), "404", logfile, posted, now)

do_POST == PostClear \/ PostLog \/ PostOther

InitLog ==
    /\ CoordsIdle
    /\ GeomIdle
    /\ AsmIdle
    /\ RunIdle
    /\ LogIdle

NextLog == do_POST

SpecLog == InitLog /\ [][NextLog]_vars

\* The lines of a text file: the text cut at each "\n", without the empty
\* piece after the last one.
LinesOf(text) ==
    LET pieces == Split(text, "\n")
    IN  IF pieces[Len(pieces)] = <<>> THEN SubSeq(pieces, 1, Len(pieces) - 1) ELSE pieces

CriticalPosted == SelectSeq(posted, Critical)

IsLineOf(line, msg) == \E t \in 0..MaxRequests : line = format_line(strftime(t), msg)

\* C19: after any sequence of POST /log and POST /clear requests the log
\* file holds exactly one line per message posted to /log since the most
\* recent /clear that contains a critical pattern, in arrival order; a
\* message with no critical pattern leaves the file unchanged and is
\* answered 200; /clear empties the file; a POST to any other path is
\* answered 404 and leaves the file unchanged.
C19_LogHoldsCriticalMessages ==
    /\ Len(LinesOf(logfile.content)) = Len(CriticalPosted)
    /\ \A i \in 1..Len(CriticalPosted) :
           i <= Len(LinesOf(logfile.content))
               => IsLineOf(LinesOf(logfile.content)[i], CriticalPosted[i])
    /\ request # <<>> =>
           /\ (request.path = "/log" /\ request.body.kind = "object"
                   /\ ~Critical(request.body.msg))
                  => (response = "200" /\ logfile = logfile_before)
           /\ request.path = "/clear"
                  => (response = "200" /\ logfile.exists /\ logfile.content = <<>>)
           /\ request.path \notin {"/log", "/clear"}
                  => (response = "404" /\ logfile = logfile_before)

\* The part of C19 that the handler does keep: the same statement for
\* messages of one line, with the file's text compared piece by piece.
OneLine(msg) == \A i \in 1..Len(msg) : msg[i] # "\n"

C19_SingleLineMessages ==
    (\A i \in 1..Len(posted) : OneLine(posted[i])) => C19_LogHoldsCriticalMessages

\* The state after the two-line message "ENDED\nx" was posted to an empty
\* log: one message, two lines.
C19_TwoLinesForOneMessage ==
    /\ posted = <<M_EndedTwoLines>>
    /\ Len(LinesOf(logfile.content)) = 2

\* A /log request whose body is not a JSON object with a text msg gets no
\* answer at all.
C19_EveryLogRequestAnswered ==
    (request # <<>> /\ request.path = "/log") => response = "200"

=============================================================================
